---- MODULE Spec2Model ----
\* Model of rip: the metadata discovery of crates/rip/src/main.rs
\* (recursively_get_metadata, the PypiDependencyProvider callbacks, actual_main
\* and main), the source distribution reader of rattler_installs_packages
\* (sdist.rs) and the interpreter version parser (system_python.rs).  Pool
\* interning is idempotent on names and version sets, so a NameId is represented
\* by the normalized name it interns and a VersionSetId by the (name,
\* specifiers) pair.
EXTENDS Integers, Sequences, FiniteSets, TLC

\* ---------------------------------------------------------------- bounds
\* Longest list of root requirements given on the command line.
MaxRoots == 2
\* Longest artifact list of one version in an index response.
MaxArtifacts == 2
\* Requirement entries the index serves in one run, over all metadata files.
MaxRequires == 2
\* Versions the index lists in one run, over all available_artifacts responses.
MaxVersions == 3

\* Longest output of `python --version`, in symbols.
MaxLen == 7

\* Most entries of an sdist archive.
MaxEntries == 2
MaxClauses == 2

\* Normalized package names of the index.
Packages == {"a", "b"}
\* Release numbers of the index.
Releases == {1, 2}
\* Specifier sets that requirements of the index carry.
SpecifierSet == {"any"}

\* ---------------------------------------------------------------- helpers
Range(s) == {s[i] : i \in 1..Len(s)}

SeqsUpTo(S, n) == UNION {[1..k -> S] : k \in 0..n}

NonEmptySeqsUpTo(S, n) == UNION {[1..k -> S] : k \in 1..n}

Count(s, x) == Cardinality({i \in 1..Len(s) : s[i] = x})

\* A HashMap: a function whose domain is the set of keys that have an entry.
EmptyMap == <<>>

HasKey(m, k) == k \in DOMAIN m

\* entry(k).or_default() followed by push(x)
PushEntry(m, k, x) ==
    IF HasKey(m, k)
    THEN [m EXCEPT ![k] = Append(@, x)]
    ELSE [j \in DOMAIN m \cup {k} |-> IF j = k THEN <<x>> ELSE m[j]]

\* ---------------------------------------------------------------- versions
\* A PEP 440 version: its release and whether a pre / dev component is set.
Versions == [release : Releases, pre : BOOLEAN, dev : BOOLEAN]

\* Position of a version in the PEP 440 total order: within one release
\* X.devN < X.aN.devM < X.aN < X.
VersionRank(v) ==
    v.release * 4 +
    (IF ~v.pre /\ ~v.dev THEN 3
     ELSE IF v.pre /\ ~v.dev THEN 2
     ELSE IF v.pre /\ v.dev THEN 1
     ELSE 0)

\* Ord::cmp on PypiVersion (derived, so Version's): -1, 0 or 1.
VersionCmp(a, b) ==
    IF VersionRank(a) < VersionRank(b) THEN -1
    ELSE IF VersionRank(a) > VersionRank(b) THEN 1
    ELSE 0

TopRank == 4 * (CHOOSE r \in Releases : \A q \in Releases : q <= r) + 4

\* ---------------------------------------------------------------- index data
\* ArtifactInfo: the kind and version of its filename, and the yanked flag.
ArtifactInfos(v) == [kind : {"wheel", "sdist"}, version : {v}, yanked : BOOLEAN]

\* A fixed order on artifacts: wheels first, unyanked first.
ArtifactRank(a) ==
    (IF a.kind = "wheel" THEN 0 ELSE 2) + (IF a.yanked THEN 1 ELSE 0)

\* The artifacts the index lists under version v: all named with version v.
\* No step reads the order of a list, so one order stands for its permutations.
ArtifactLists(v) ==
    {arts \in NonEmptySeqsUpTo(ArtifactInfos(v), MaxArtifacts) :
        \A i \in 1..(Len(arts) - 1) :
            ArtifactRank(arts[i]) <= ArtifactRank(arts[i + 1])}

\* The environment markers evaluate against.
env ==
    [k \in {"os_name", "sys_platform", "platform_machine",
            "platform_python_implementation", "platform_release",
            "platform_system", "platform_version", "python_version",
            "python_full_version", "implementation_name",
            "implementation_version", "extra"}
       |-> IF k = "python_version" THEN "3.9" ELSE ""]

\* Marker expressions requirements of the index carry: key == value.
MarkerExprs ==
    { [key |-> "python_version", value |-> "3.9"],
      [key |-> "os_name", value |-> "nt"],
      [key |-> "python_implementation", value |-> ""] }

NoMarker == [key |-> "", value |-> ""]

\* EnvMarkerExpr::eval: "true", "false", or "error" for a key env lacks.
Eval(m, e) ==
    IF m.key \notin DOMAIN e THEN "error"
    ELSE IF e[m.key] = m.value THEN "true"
    ELSE "false"

\* Requirement: name, specifiers and the optional marker expression.
Requirements ==
    [name : Packages, specifiers : SpecifierSet,
     env_marker_expr : MarkerExprs \cup {NoMarker}]

\* The requires_dist lists of at most n entries, for each n.
RequiresDists == [n \in 0..MaxRequires |-> SeqsUpTo(Requirements, n)]

\* ---------------------------------------------------------------- pool
\* pool.intern_solvable(name_id, version)
InternSolvable(name, v) == [name |-> name, version |-> v]

\* pool.intern_version_set(name_id, specifiers)
InternVersionSet(name, specifiers) == [name |-> name, specifiers |-> specifiers]

Null == [release |-> 0]

\* Option: None and Some(x)
None == [some |-> FALSE]

Some(x) == [some |-> TRUE, value |-> x]

\* No metadata is in scope: between two iterations of the version loop.
NoMetadata == [name |-> "", version |-> Null, requires_dist |-> <<>>]

\* The solver has called no callback yet.
NoReply == [fn |-> "", arg |-> "", result |-> None]

\* The exit code of a process that has not exited.
NotExited == -1

VARIABLES
    packages,      \* the root names recursively_get_metadata is called with
    mainpc,        \* position of actual_main
    pc,            \* position of recursively_get_metadata
    queue,         \* VecDeque<PackageName>
    seen,          \* HashSet<PackageName>
    candidates,    \* HashMap<NameId, Candidates>
    dependencies,  \* HashMap<SolvableId, Dependencies>
    package,       \* the name popped from the queue
    cursor,        \* versions of the response still to iterate rank below this
    version,       \* the version of the current iteration of the version loop
    artifacts,     \* its artifact list (kept by FilterSpec only)
    metadata_arg,  \* the list handed to get_metadata (kept by FilterSpec only)
    branch,        \* the way the last iteration of the version loop went
    error,         \* history: the last get_metadata or marker evaluation failure
    enqueued,      \* history: times each name was put into the queue
    fetches,       \* history: available_artifacts calls per name
    failed,        \* history: names whose available_artifacts call failed
    listed,        \* index: versions listed so far in this run
    required,      \* index: requirement entries served so far in this run
    sorted,        \* solver: candidate lists after sort_candidates
    metadata,      \* the metadata get_metadata returned in this iteration
    reply,         \* solver: the last callback call and what it returned
    stdout,        \* the lines written to stdout
    stderr,        \* the messages written to stderr
    exit_code      \* the exit code of the process, once main has returned

\* What the process has written and how it ended.
io == <<stdout, stderr, exit_code>>

main_vars ==
    <<packages, mainpc, pc, queue, seen, candidates, dependencies, package,
      cursor, version, artifacts, metadata_arg, branch, error, enqueued,
      fetches, failed, listed, required, sorted, metadata, reply, io>>

\* An open SDist and the threads that look entries up in it.
VARIABLES
    archive,       \* the tar stream behind SDist::archive
    pos,           \* blocks of the stream read so far (tar's Archive position)
    locked_by,     \* the thread that holds the archive mutex, 0 if none
    tpc,           \* position of each thread
    op,            \* the method each thread called
    looking_for,   \* the name each thread's find_entry looks for
    ret,           \* what the method returned to each thread
    order          \* history: the threads in the order they locked the mutex

sdist_vars == <<archive, pos, locked_by, tpc, op, looking_for, ret, order>>

\* PythonInterpreterVersion::from_python_output on a version string.
VARIABLES
    version_str,   \* the output of `python --version`
    parsed         \* the result of from_python_output

python_vars == <<version_str, parsed>>

\* PypiVersionSet::contains on a version set and a version.
VARIABLES
    version_set,   \* self.0: the Specifiers of the version set
    pypi_version,  \* v.0: the Version asked about
    satisfied,     \* what satisfied_by returned to contains
    contained      \* what contains returned

contains_vars == <<version_set, pypi_version, satisfied, contained>>

vars == <<main_vars, sdist_vars, python_vars, contains_vars>>

\* ---------------------------------------------------------------- discovery
RECURSIVE Sum(_, _)
Sum(f, S) ==
    IF S = {} THEN 0
    ELSE LET x == CHOOSE y \in S : TRUE IN f[x] + Sum(f, S \ {x})

\* available_artifacts calls made so far.
Fetched == Sum(fetches, Packages)

\* Upper limit on available_artifacts calls in one run: one per root entry plus
\* one per other name of the index.  It only stops runs that would never end.
MaxFetches == Len(packages) + Cardinality(Packages \ Range(packages))

\* A seen set that is never consulted.
SeenContains_Never(s, name) == FALSE

\* A seen set that holds every name.
SeenContains_Always(s, name) == TRUE

\* seen.contains(&requirement.name)
SeenContains(s, name) == name \in s

\* queue.pop_front(): the rest of the queue
PopFront(q) == Tail(q)

\* The wheel filter without the pre / dev filter.
AvailableArtifacts_AnyRelease(arts) == SelectSeq(arts, LAMBDA a : a.kind = "wheel")

\* Wheels whose filename version has neither pre nor dev set.
AvailableArtifacts(arts) ==
    SelectSeq(arts, LAMBDA a : a.kind = "wheel" /\ ~a.version.pre /\ ~a.version.dev)

\* A yanked filter that keeps every artifact.
NonYankedArtifacts_Unfiltered(arts) == arts

\* The yanked filter runs over the version's whole artifact list.
NonYankedArtifacts(arts) == SelectSeq(arts, LAMBDA a : ~a.yanked)

\* The list handed to get_metadata::<Wheel, _>.
MetadataArg(arts) == arts

\* The body of the version loop up to the get_metadata call: the `continue`
\* it takes on the version's artifact list, or the call.
VersionBranch(arts) ==
    IF AvailableArtifacts(arts) = <<>> THEN "no_wheel"
    ELSE IF NonYankedArtifacts(arts) = <<>> THEN "yanked"
    ELSE "get_metadata"

\* The pairs <<v, b>>: some artifact list of version v leads to branch b.
Branches ==
    UNION {{<<v, VersionBranch(arts)>> : arts \in ArtifactLists(v)} : v \in Versions}

\* A get_metadata failure that is logged and skipped like a failed fetch.
OnMetadataError_Skip == "versions"

\* Where recursively_get_metadata goes when get_metadata fails: `?` returns Err.
OnMetadataError == "error"

\* Where it goes when env_marker.eval fails: `?` returns Err.
OnMarkerError == "error"

\* A marker test that lets every requirement through.
MarkerPasses_Always(result) == TRUE

\* `if !env_marker.eval(&env)? { continue; }`: the requirement is kept when
\* the marker evaluates to true.
MarkerPasses(result) == result = "true"

\* The loop over metadata.requires_dist for solvable_id, on the loop's state
\* st = [queue, seen, dependencies, enqueued, stdout, error, returned];
\* returned is set when `?` leaves the function.
RECURSIVE RequirementLoop(_, _, _)
RequirementLoop(reqs, solvable_id, st) ==
    IF reqs = <<>> THEN st
    ELSE
        LET requirement == Head(reqs)
            result == IF requirement.env_marker_expr = NoMarker THEN "true"
                      ELSE Eval(requirement.env_marker_expr, env)
        IN  IF result = "error" /\ OnMarkerError = "error"
            THEN [st EXCEPT !.error = "marker", !.returned = TRUE]
            ELSE IF result = "error"
            THEN RequirementLoop(Tail(reqs), solvable_id,
                                 [st EXCEPT !.error = "marker"])
            ELSE IF ~MarkerPasses(result)
            THEN RequirementLoop(Tail(reqs), solvable_id, st)
            ELSE
                LET new == ~SeenContains(st.seen, requirement.name)
                    version_set_id ==
                        InternVersionSet(requirement.name, requirement.specifiers)
                IN  RequirementLoop(Tail(reqs), solvable_id,
                        [st EXCEPT
                            !.queue = IF new THEN Append(@, requirement.name) ELSE @,
                            !.seen = IF new THEN @ \cup {requirement.name} ELSE @,
                            !.enqueued[requirement.name] = IF new THEN @ + 1 ELSE @,
                            !.stdout = IF new THEN Append(@, "adding") ELSE @,
                            !.dependencies = PushEntry(@, solvable_id, version_set_id)])

\* No SDist is open in a run of rip.
NoSDist ==
    /\ archive = <<>>
    /\ pos = 0
    /\ locked_by = 0
    /\ tpc = <<>>
    /\ op = <<>>
    /\ looking_for = <<>>
    /\ ret = <<>>
    /\ order = <<>>

\* No interpreter is asked for its version in a run of rip.
NoPythonOutput ==
    /\ version_str = <<>>
    /\ parsed = None

\* No membership test is made.
NoContains ==
    /\ version_set = <<>>
    /\ pypi_version = Null
    /\ satisfied = [tag |-> "", value |-> FALSE]
    /\ contained = None

\* An exit code that is 0 for a printed environment only.
ExitCode_ZeroIfResolved(outcome) == IF outcome = "resolved" THEN 0 ELSE 1

\* main returns (): the process exits with 0 whatever actual_main returned.
ExitCode(outcome) == 0

\* actual_main returns Err(e): main prints it to stderr and returns.
MainErr ==
    /\ mainpc' = "failed"
    /\ stderr' = Append(stderr, "error")
    /\ exit_code' = ExitCode("failed")
    /\ UNCHANGED stdout

\* actual_main is called with the parsed arguments: any non-empty list of
\* roots.  The model treats all names alike, so the first root is fixed.
Init ==
    /\ packages \in {roots \in NonEmptySeqsUpTo(Packages, MaxRoots) : roots[1] = "a"}
    /\ mainpc = "start"
    /\ pc = "idle"
    /\ queue = <<>>
    /\ seen = {}
    /\ candidates = EmptyMap
    /\ dependencies = EmptyMap
    /\ package = ""
    /\ cursor = 0
    /\ version = Null
    /\ artifacts = <<>>
    /\ metadata_arg = <<>>
    /\ branch = ""
    /\ error = "none"
    /\ enqueued = [p \in Packages |-> 0]
    /\ fetches = [p \in Packages |-> 0]
    /\ failed = {}
    /\ listed = 0
    /\ required = 0
    /\ sorted = EmptyMap
    /\ metadata = NoMetadata
    /\ reply = NoReply
    /\ stdout = <<>>
    /\ stderr = <<>>
    /\ exit_code = NotExited
    /\ NoSDist
    /\ NoPythonOutput
    /\ NoContains

\* dirs::cache_dir() is None: `?` returns the error.
CacheDirErr ==
    /\ mainpc = "start"
    /\ error' = "cache_dir"
    /\ MainErr
    /\ UNCHANGED <<packages, pc, queue, seen, candidates, dependencies, package,
                   cursor, version, artifacts, metadata_arg, branch, enqueued,
                   fetches, failed, listed, required, sorted, metadata, reply>>
    /\ UNCHANGED <<sdist_vars, python_vars, contains_vars>>

\* PackageDb::new fails: `?` returns the error.
PackageDbErr ==
    /\ mainpc = "start"
    /\ error' = "package_db"
    /\ MainErr
    /\ UNCHANGED <<packages, pc, queue, seen, candidates, dependencies, package,
                   cursor, version, artifacts, metadata_arg, branch, enqueued,
                   fetches, failed, listed, required, sorted, metadata, reply>>
    /\ UNCHANGED <<sdist_vars, python_vars, contains_vars>>

\* recursively_get_metadata is called with the root names, up to the head of
\* its while loop.
RecursivelyGetMetadata ==
    /\ mainpc = "start"
    /\ mainpc' = "discover"
    /\ pc' = "pop"
    /\ queue' = packages
    /\ seen' = Range(packages)
    /\ enqueued' = [p \in Packages |-> Count(packages, p)]
    /\ UNCHANGED <<packages, candidates, dependencies, package, cursor, version,
                   artifacts, metadata_arg, branch, error, fetches, failed,
                   listed, required, sorted, metadata, reply, io>>
    /\ UNCHANGED <<sdist_vars, python_vars, contains_vars>>

\* while let Some(package) = queue.pop_front(): available_artifacts fails,
\* the package is logged and skipped.
FetchArtifactsErr ==
    /\ pc = "pop" /\ queue # <<>>
    /\ Fetched < MaxFetches
    /\ package' = Head(queue)
    /\ queue' = PopFront(queue)
    /\ fetches' = [fetches EXCEPT ![Head(queue)] = @ + 1]
    /\ failed' = failed \cup {Head(queue)}
    /\ UNCHANGED <<packages, mainpc, pc, seen, candidates, dependencies, cursor,
                   version, artifacts, metadata_arg, branch, error, enqueued,
                   listed, required, sorted, metadata, reply, io>>
    /\ UNCHANGED <<sdist_vars, python_vars, contains_vars>>

\* available_artifacts returns the version map; the loop over it starts.
FetchArtifactsOk ==
    /\ pc = "pop" /\ queue # <<>>
    /\ Fetched < MaxFetches
    /\ package' = Head(queue)
    /\ queue' = PopFront(queue)
    /\ fetches' = [fetches EXCEPT ![Head(queue)] = @ + 1]
    /\ pc' = "versions"
    /\ cursor' = TopRank
    /\ branch' = ""
    /\ UNCHANGED <<packages, mainpc, seen, candidates, dependencies, version,
                   artifacts, metadata_arg, error, enqueued, failed, listed,
                   required, sorted, metadata, reply, io>>
    /\ UNCHANGED <<sdist_vars, python_vars, contains_vars>>

\* One iteration of the version loop that ends in a `continue`: no artifact
\* passes the wheel / pre / dev filter, or no artifact of the version is unyanked.
SkipVersion ==
    /\ pc = "versions"
    /\ listed < MaxVersions
    /\ \E vb \in Branches :
         /\ VersionRank(vb[1]) < cursor
         /\ vb[2] # "get_metadata"
         /\ cursor' = VersionRank(vb[1])
         /\ branch' = vb[2]
    /\ listed' = listed + 1
    /\ metadata' = NoMetadata
    /\ UNCHANGED <<packages, mainpc, pc, queue, seen, candidates, dependencies,
                   package, version, artifacts, metadata_arg, error, enqueued,
                   fetches, failed, required, sorted, reply, io>>
    /\ UNCHANGED <<sdist_vars, python_vars, contains_vars>>

\* One iteration of the version loop up to the get_metadata call.
CallGetMetadata ==
    /\ pc = "versions"
    /\ listed < MaxVersions
    /\ \E vb \in Branches :
         /\ VersionRank(vb[1]) < cursor
         /\ vb[2] = "get_metadata"
         /\ cursor' = VersionRank(vb[1])
         /\ version' = vb[1]
    /\ branch' = "get_metadata"
    /\ listed' = listed + 1
    /\ pc' = "metadata"
    /\ metadata' = NoMetadata
    /\ UNCHANGED <<packages, mainpc, queue, seen, candidates, dependencies,
                   package, artifacts, metadata_arg, error, enqueued, fetches,
                   failed, required, sorted, reply, io>>
    /\ UNCHANGED <<sdist_vars, python_vars, contains_vars>>

\* get_metadata fails: `?` returns the error and the function's locals
\* (queue, seen, pool, candidates, dependencies) are dropped.
GetMetadataErr ==
    /\ pc = "metadata"
    /\ error' = "metadata"
    /\ IF OnMetadataError = "error"
       THEN /\ pc' = "error"
            /\ MainErr
            /\ queue' = <<>> /\ seen' = {}
            /\ candidates' = EmptyMap /\ dependencies' = EmptyMap
            /\ UNCHANGED version
       ELSE /\ pc' = "versions"
            /\ version' = Null
            /\ UNCHANGED <<mainpc, queue, seen, candidates, dependencies, io>>
    /\ UNCHANGED <<packages, package, cursor, artifacts, metadata_arg, branch,
                   enqueued, fetches, failed, listed, required, sorted,
                   metadata, reply>>
    /\ UNCHANGED <<sdist_vars, python_vars, contains_vars>>

\* get_metadata returns metadata: the solvable is interned and pushed, the
\* requirements are walked, and the iteration ends; or a marker fails to
\* evaluate and `?` returns the error.
GetMetadataOk ==
    /\ pc = "metadata"
    /\ \E requires_dist \in RequiresDists[MaxRequires - required] :
         LET solvable_id == InternSolvable(package, version)
             st == RequirementLoop(requires_dist, solvable_id,
                       [queue |-> queue, seen |-> seen,
                        dependencies |-> dependencies,
                        enqueued |-> enqueued, stdout |-> stdout,
                        error |-> error, returned |-> FALSE])
         IN  /\ required' = required + Len(requires_dist)
             /\ enqueued' = st.enqueued
             /\ error' = st.error
             /\ stdout' = st.stdout
             /\ IF ~st.returned
                THEN /\ pc' = "versions"
                     /\ candidates' = PushEntry(candidates, package, solvable_id)
                     /\ queue' = st.queue
                     /\ seen' = st.seen
                     /\ dependencies' = st.dependencies
                     /\ version' = Null
                     /\ metadata' = [name |-> package, version |-> version,
                                     requires_dist |-> requires_dist]
                     /\ UNCHANGED <<mainpc, stderr, exit_code>>
                ELSE /\ pc' = "error"
                     /\ mainpc' = "failed"
                     /\ stderr' = Append(stderr, "error")
                     /\ exit_code' = ExitCode("failed")
                     /\ queue' = <<>> /\ seen' = {}
                     /\ candidates' = EmptyMap /\ dependencies' = EmptyMap
                     /\ UNCHANGED <<version, metadata>>
    /\ UNCHANGED <<packages, package, cursor, artifacts, metadata_arg, branch,
                   fetches, failed, listed, sorted, reply>>
    /\ UNCHANGED <<sdist_vars, python_vars, contains_vars>>

\* The version map is exhausted: back to the head of the while loop.
EndVersions ==
    /\ pc = "versions"
    /\ artifacts = <<>>
    /\ pc' = "pop"
    /\ cursor' = 0
    /\ branch' = ""
    /\ metadata' = NoMetadata
    /\ UNCHANGED <<packages, mainpc, queue, seen, candidates, dependencies,
                   package, version, artifacts, metadata_arg, error, enqueued,
                   fetches, failed, listed, required, sorted, reply, io>>
    /\ UNCHANGED <<sdist_vars, python_vars, contains_vars>>

\* The queue is empty: Ok(PypiDependencyProvider { pool, candidates, dependencies }).
ReturnProvider ==
    /\ pc = "pop" /\ queue = <<>>
    /\ pc' = "returned"
    /\ mainpc' = "solve"
    /\ UNCHANGED <<packages, queue, seen, candidates, dependencies, package,
                   cursor, version, artifacts, metadata_arg, branch, error,
                   enqueued, fetches, failed, listed, required, sorted,
                   metadata, reply, io>>
    /\ UNCHANGED <<sdist_vars, python_vars, contains_vars>>

\* ---------------------------------------------------------------- solver
\* Insertion of x into a list already ordered by `b.cmp(a)`, after its equals.
RECURSIVE InsertSorted(_, _)
InsertSorted(x, s) ==
    IF s = <<>> THEN <<x>>
    ELSE IF VersionCmp(x.version, Head(s).version) = 1 THEN <<x>> \o s
    ELSE <<Head(s)>> \o InsertSorted(x, Tail(s))

\* sort_candidates: a stable sort by `b.cmp(a)`, highest version first.
RECURSIVE sort_candidates(_)
sort_candidates(solvables) ==
    IF solvables = <<>> THEN <<>>
    ELSE InsertSorted(solvables[Len(solvables)],
                      sort_candidates(SubSeq(solvables, 1, Len(solvables) - 1)))

\* get_candidates: self.candidates.get(&name).cloned()
get_candidates(name) ==
    IF HasKey(candidates, name) THEN Some(candidates[name]) ELSE None

\* A provider that knows no dependencies.
get_dependencies_Leaf(solvable) == <<>>

\* get_dependencies: self.dependencies.get(&solvable).cloned().unwrap_or_default()
get_dependencies(solvable) ==
    IF HasKey(dependencies, solvable) THEN dependencies[solvable] ELSE <<>>

\* The solvables the solver knows of: it learns them from get_candidates.
Solvables == UNION {Range(candidates[n]) : n \in DOMAIN candidates}

\* The solver asks for the candidates of a name.
CallGetCandidates ==
    /\ mainpc = "solve"
    /\ \E name \in Packages :
         reply' = [fn |-> "get_candidates", arg |-> name,
                   result |-> get_candidates(name)]
    /\ UNCHANGED <<packages, mainpc, pc, queue, seen, candidates, dependencies,
                   package, cursor, version, artifacts, metadata_arg, branch,
                   error, enqueued, fetches, failed, listed, required, sorted,
                   metadata, io>>
    /\ UNCHANGED <<sdist_vars, python_vars, contains_vars>>

\* The solver asks for the dependencies of a solvable.
CallGetDependencies ==
    /\ mainpc = "solve"
    /\ \E solvable \in Solvables :
         reply' = [fn |-> "get_dependencies", arg |-> solvable,
                   result |-> Some(get_dependencies(solvable))]
    /\ UNCHANGED <<packages, mainpc, pc, queue, seen, candidates, dependencies,
                   package, cursor, version, artifacts, metadata_arg, branch,
                   error, enqueued, fetches, failed, listed, required, sorted,
                   metadata, io>>
    /\ UNCHANGED <<sdist_vars, python_vars, contains_vars>>

\* What actual_main prints of a transaction: the header, the specs, a blank
\* line, the table header and the rows.
ResolvedEnvironment ==
    <<"Resolved environment:", "- specs", "", "Name\tVersion", "rows">>

\* Solver::solve on the provider: candidate lists are sorted before use.  A
\* conflict is printed to stderr and actual_main returns Ok(()); a transaction
\* is printed to stdout.  Then main returns.
Solve ==
    /\ mainpc = "solve"
    /\ sorted' = [n \in DOMAIN candidates |->
                     sort_candidates(get_candidates(n).value)]
    /\ \E result \in {"resolved", "unsat"} :
         /\ mainpc' = result
         /\ IF result = "unsat"
            THEN stderr' = Append(stderr, "Could not solve") /\ UNCHANGED stdout
            ELSE stdout' = stdout \o ResolvedEnvironment /\ UNCHANGED stderr
         /\ exit_code' = ExitCode(result)
    /\ reply' = NoReply
    /\ UNCHANGED <<packages, pc, queue, seen, candidates, dependencies, package,
                   cursor, version, artifacts, metadata_arg, branch, error,
                   enqueued, fetches, failed, listed, required, metadata>>
    /\ UNCHANGED <<sdist_vars, python_vars, contains_vars>>

Next ==
    \/ CacheDirErr
    \/ PackageDbErr
    \/ RecursivelyGetMetadata
    \/ FetchArtifactsErr
    \/ FetchArtifactsOk
    \/ SkipVersion
    \/ CallGetMetadata
    \/ GetMetadataErr
    \/ GetMetadataOk
    \/ EndVersions
    \/ ReturnProvider
    \/ CallGetCandidates
    \/ CallGetDependencies
    \/ Solve

Spec == Init /\ [][Next]_vars

\* The loop has no scheduler to wait for: each step that can be taken is taken.
FairSpec == Spec /\ WF_vars(Next)

\* ---------------------------------------------------------------- one version
\* One iteration of the version loop on every version and artifact list the
\* index can list: the state after FetchArtifactsOk on the roots <<"a">>, with
\* the artifact list of the version the response lists.
FilterInit ==
    /\ packages = <<"a">>
    /\ mainpc = "discover"
    /\ pc = "versions"
    /\ queue = <<>>
    /\ seen = {"a"}
    /\ candidates = EmptyMap
    /\ dependencies = EmptyMap
    /\ package = "a"
    /\ cursor = TopRank
    /\ version = Null
    /\ \E v \in Versions : artifacts \in ArtifactLists(v)
    /\ metadata_arg = <<>>
    /\ branch = ""
    /\ error = "none"
    /\ enqueued = [p \in Packages |-> IF p = "a" THEN 1 ELSE 0]
    /\ fetches = [p \in Packages |-> IF p = "a" THEN 1 ELSE 0]
    /\ failed = {}
    /\ listed = 0
    /\ required = 0
    /\ sorted = EmptyMap
    /\ metadata = NoMetadata
    /\ reply = NoReply
    /\ stdout = <<>>
    /\ stderr = <<>>
    /\ exit_code = NotExited
    /\ NoSDist
    /\ NoPythonOutput
    /\ NoContains

\* The body of the version loop on the listed version, up to a `continue` or
\* to the get_metadata call.
VersionBody ==
    /\ pc = "versions"
    /\ artifacts # <<>>
    /\ listed = 0
    /\ listed' = 1
    /\ cursor' = VersionRank(artifacts[1].version)
    /\ branch' = VersionBranch(artifacts)
    /\ IF VersionBranch(artifacts) = "get_metadata"
       THEN /\ version' = artifacts[1].version
            /\ metadata_arg' = MetadataArg(artifacts)
            /\ pc' = "metadata"
       ELSE UNCHANGED <<version, metadata_arg, pc>>
    /\ UNCHANGED <<packages, mainpc, queue, seen, candidates, dependencies,
                   package, artifacts, error, enqueued, fetches, failed,
                   required, sorted, metadata, reply, io>>
    /\ UNCHANGED <<sdist_vars, python_vars, contains_vars>>

FilterNext ==
    \/ VersionBody
    \/ GetMetadataErr
    \/ GetMetadataOk

FilterSpec == FilterInit /\ [][FilterNext]_vars

\* ---------------------------------------------------------------- sdist
\* The threads that share one open SDist.
Threads == {1, 2}

\* The lookups of SDist.
Methods == {"read_package_info", "read_build_info", "pep643_metadata"}

\* The name each method hands to find_entry.
NameOf(m) == IF m = "read_build_info" THEN "pyproject.toml" ELSE "PKG-INFO"

\* What an entry holds: whether it decodes (as core metadata, or as a
\* pyproject.toml with a build-system table) and the Metadata-Version it gives.
Content(decodes, major, minor) ==
    [decodes |-> decodes, metadata_version |-> <<major, minor>>]

NoContent == Content(FALSE, 0, 0)

\* The entries archives are made of: PKG-INFO files of metadata versions 2.1,
\* 2.2 and 3.0 and one that does not decode, a pyproject.toml, a file whose
\* name only ends in the letters PKG-INFO, and an entry that cannot be read.
ArchiveEntries ==
    {[path |-> <<"pkg", "PKG-INFO">>, content |-> c, corrupt |-> FALSE] :
        c \in {Content(TRUE, 2, 1), Content(TRUE, 2, 2), Content(TRUE, 3, 0),
               NoContent}}
    \cup {[path |-> <<"pkg", "pyproject.toml">>, content |-> Content(TRUE, 0, 0),
           corrupt |-> FALSE],
          [path |-> <<"pkg", "NOT-PKG-INFO">>, content |-> Content(TRUE, 2, 2),
           corrupt |-> FALSE],
          [path |-> <<"pkg", "data">>, content |-> NoContent, corrupt |-> TRUE]}

\* A tar stream: its entries, and whether the end-of-archive blocks follow
\* them.  A stream cut off after an entry behaves like a terminated one; an
\* empty stream is one from which nothing can be read.
Archives ==
    {[entries |-> e, terminated |-> t] :
        e \in SeqsUpTo(ArchiveEntries, MaxEntries), t \in BOOLEAN}
    \ {[entries |-> e, terminated |-> FALSE] :
        e \in NonEmptySeqsUpTo(ArchiveEntries, MaxEntries)}

\* Path::ends_with: the last components of the path are those of the name.
EndsWith(path, name) == path # <<>> /\ path[Len(path)] = name

\* Archive::entries: an error unless the archive is at position 0.
Entries_AtAnyPosition(p) == "Ok"

Entries(p) == IF p # 0 THEN "Err" ELSE "Ok"

\* A mutex guard that is kept when find_entry returns an error.
Release_NotOnError(t, exit) == IF exit = "Err" THEN t ELSE 0

\* The MutexGuard `archive` is dropped when find_entry returns, on every path.
Release(t, exit) == 0

\* A comparison of the two numbers one by one.
implements_pep643_EachAtLeast(metadata_version) ==
    metadata_version[1] >= 2 /\ metadata_version[2] >= 2

\* MetadataVersion::implements_pep643: (major, minor) >= (2, 2)
implements_pep643(metadata_version) ==
    \/ metadata_version[1] > 2
    \/ metadata_version[1] = 2 /\ metadata_version[2] >= 2

\* What a method returns: the outcome of its find_entry call, its own result
\* and the bytes and metadata it carries.
Return(fe, tag, value) == [find_entry |-> fe, tag |-> tag, value |-> value]

NoReturn == Return("", "", NoContent)

\* read_package_info on the result of find_entry("PKG-INFO")
read_package_info(fe) ==
    IF fe.tag = "Some" /\ fe.value.decodes
    THEN Return(fe.tag, "Ok", fe.value)
    ELSE Return(fe.tag, "Err", NoContent)

\* read_build_info on the result of find_entry("pyproject.toml")
read_build_info(fe) ==
    IF fe.tag = "Some" /\ fe.value.decodes
    THEN Return(fe.tag, "Ok", fe.value)
    ELSE Return(fe.tag, "Err", NoContent)

\* The metadata of any readable PKG-INFO, without the PEP 643 test.
pep643_metadata_Unchecked(fe) ==
    LET r == read_package_info(fe)
    IN  IF r.tag = "Ok"
        THEN Return(fe.tag, "Some", r.value)
        ELSE Return(fe.tag, "None", NoContent)

\* pep643_metadata: read_package_info().ok()?, then the PEP 643 test
pep643_metadata(fe) ==
    LET r == read_package_info(fe)
    IN  IF r.tag = "Ok" /\ implements_pep643(r.value.metadata_version)
        THEN Return(fe.tag, "Some", r.value)
        ELSE Return(fe.tag, "None", NoContent)

\* The method m of a thread returns on the result fe of its find_entry call.
MethodReturns(m, fe) ==
    CASE m = "read_package_info" -> read_package_info(fe)
      [] m = "read_build_info" -> read_build_info(fe)
      [] OTHER -> pep643_metadata(fe)

\* No discovery runs while an SDist is read.
NoRun ==
    /\ packages = <<>>
    /\ mainpc = "none"
    /\ pc = "idle"
    /\ queue = <<>>
    /\ seen = {}
    /\ candidates = EmptyMap
    /\ dependencies = EmptyMap
    /\ package = ""
    /\ cursor = 0
    /\ version = Null
    /\ artifacts = <<>>
    /\ metadata_arg = <<>>
    /\ branch = ""
    /\ error = "none"
    /\ enqueued = [p \in Packages |-> 0]
    /\ fetches = [p \in Packages |-> 0]
    /\ failed = {}
    /\ listed = 0
    /\ required = 0
    /\ sorted = EmptyMap
    /\ metadata = NoMetadata
    /\ reply = NoReply
    /\ stdout = <<>>
    /\ stderr = <<>>
    /\ exit_code = NotExited

\* SDist::new on any tar stream: the archive is at position 0, unlocked.
SDistInit ==
    /\ archive \in Archives
    /\ pos = 0
    /\ locked_by = 0
    /\ tpc = [t \in Threads |-> "idle"]
    /\ op = [t \in Threads |-> ""]
    /\ looking_for = [t \in Threads |-> ""]
    /\ ret = [t \in Threads |-> NoReturn]
    /\ order = <<>>
    /\ NoRun
    /\ NoPythonOutput
    /\ NoContains

\* Thread t calls a method of the SDist: it enters find_entry and asks for
\* the mutex.
CallMethod(t) ==
    /\ tpc[t] = "idle"
    /\ \E m \in Methods :
         /\ op' = [op EXCEPT ![t] = m]
         /\ looking_for' = [looking_for EXCEPT ![t] = NameOf(m)]
    /\ tpc' = [tpc EXCEPT ![t] = "lock"]
    /\ UNCHANGED <<archive, pos, locked_by, ret, order>>
    /\ UNCHANGED <<main_vars, python_vars, contains_vars>>

\* self.archive.lock() returns to thread t, which calls archive.entries():
\* the loop over the entries starts, or `?` returns the error.
Lock(t) ==
    /\ tpc[t] = "lock"
    /\ locked_by = 0
    /\ order' = Append(order, t)
    /\ IF Entries(pos) = "Ok"
       THEN /\ locked_by' = t
            /\ tpc' = [tpc EXCEPT ![t] = "entries"]
            /\ UNCHANGED ret
       ELSE /\ locked_by' = Release(t, "Err")
            /\ tpc' = [tpc EXCEPT ![t] = "done"]
            /\ ret' = [ret EXCEPT
                         ![t] = MethodReturns(op[t], [tag |-> "Err", value |-> NoContent])]
    /\ UNCHANGED <<archive, pos, op, looking_for>>
    /\ UNCHANGED <<main_vars, python_vars, contains_vars>>

\* A find_entry that gives Ok(None) where an entry cannot be read.
FindEntryReturns_ErrorIsNotFound(t, fe) ==
    /\ locked_by' = Release(t, fe.tag)
    /\ tpc' = [tpc EXCEPT ![t] = "done"]
    /\ ret' = [ret EXCEPT
                 ![t] = MethodReturns(op[t], IF fe.tag = "Err"
                                             THEN [tag |-> "None", value |-> NoContent]
                                             ELSE fe)]


\* find_entry returns fe to the method of thread t, which returns.
FindEntryReturns(t, fe) ==
    /\ locked_by' = Release(t, fe.tag)
    /\ tpc' = [tpc EXCEPT ![t] = "done"]
    /\ ret' = [ret EXCEPT ![t] = MethodReturns(op[t], fe)]

\* One iteration of the loop over the entries in thread t: the stream has
\* ended, the next entry cannot be read (after some or none of its bytes were
\* taken from the stream), its path matches, or it is passed over.
NextEntry(t) ==
    /\ tpc[t] = "entries"
    /\ locked_by = t
    /\ IF pos >= Len(archive.entries)
       THEN /\ pos' = IF archive.terminated THEN pos + 1 ELSE pos
            /\ FindEntryReturns(t, [tag |-> "None", value |-> NoContent])
       ELSE LET entry == archive.entries[pos + 1]
            IN  IF entry.corrupt
                THEN /\ pos' \in {pos, pos + 1}
                     /\ FindEntryReturns(t, [tag |-> "Err", value |-> NoContent])
                ELSE /\ pos' = pos + 1
                     /\ IF EndsWith(entry.path, looking_for[t])
                        THEN FindEntryReturns(t, [tag |-> "Some",
                                                  value |-> entry.content])
                        ELSE UNCHANGED <<locked_by, tpc, ret>>
    /\ UNCHANGED <<archive, op, looking_for, order>>
    /\ UNCHANGED <<main_vars, python_vars, contains_vars>>

SDistNext == \E t \in Threads : CallMethod(t) \/ Lock(t) \/ NextEntry(t)

SDistSpec == SDistInit /\ [][SDistNext]_vars

\* Threads run, and the mutex is handed to a thread that waits for it.
SDistFairSpec == SDistSpec /\ WF_vars(SDistNext)

\* ---------------------------------------------------------------- python
\* What a version string is made of: the word Python, a blank, a dot and the
\* digits 3 and 8.  The word also stands for letters where digits are expected.
Symbols == {"Python", " ", ".", "3", "8"}

Digits == {"3", "8"}

DigitValue(c) == IF c = "3" THEN 3 ELSE 8

\* The version strings of at most MaxLen symbols.
VersionStrings == SeqsUpTo(Symbols, MaxLen)

\* s without its first n symbols
Drop(s, n) == SubSeq(s, n + 1, Len(s))

\* s without its leading whitespace
RECURSIVE SkipWhitespace(_)
SkipWhitespace(s) ==
    IF s # <<>> /\ Head(s) = " " THEN SkipWhitespace(Tail(s)) ELSE s

\* The longest prefix of s without the separator
RECURSIVE TakeUntil(_, _)
TakeUntil(s, sep) ==
    IF s = <<>> \/ Head(s) = sep THEN <<>>
    ELSE <<Head(s)>> \o TakeUntil(Tail(s), sep)

\* str::split_whitespace: the non-empty runs of non-whitespace symbols
RECURSIVE split_whitespace(_)
split_whitespace(s) ==
    LET r == SkipWhitespace(s)
        t == TakeUntil(r, " ")
    IN  IF r = <<>> THEN <<>>
        ELSE <<t>> \o split_whitespace(Drop(r, Len(t)))

\* str::split('.'): the runs between the dots, empty ones included
RECURSIVE split(_, _)
split(s, sep) ==
    LET t == TakeUntil(s, sep)
    IN  IF Len(t) = Len(s) THEN <<t>>
        ELSE <<t>> \o split(Drop(s, Len(t) + 1), sep)

\* The number a run of digits spells
RECURSIVE Number(_)
Number(digits) ==
    IF digits = <<>> THEN 0
    ELSE 10 * Number(SubSeq(digits, 1, Len(digits) - 1))
             + DigitValue(digits[Len(digits)])

\* A parse that reads the empty string as 0.
parse_EmptyIsZero(part) ==
    IF \E i \in 1..Len(part) : part[i] \notin Digits THEN None
    ELSE Some(Number(part))

\* str::parse::<u32>: a non-empty run of digits.  A run of fewer than ten
\* digits spells a number below 2^32, and version strings of MaxLen symbols
\* hold no longer run, so the overflow error of parse does not arise.
parse(part) ==
    IF part = <<>> \/ \E i \in 1..Len(part) : part[i] \notin Digits THEN None
    ELSE Some(Number(part))

\* Err(InvalidVersion(version_str.to_owned()))
InvalidVersion(str) ==
    [ok |-> FALSE, major |-> 0, minor |-> 0, patch |-> 0, invalid_version |-> str]

\* Ok(Self::new(major, minor, patch))
PythonInterpreterVersion(major, minor, patch) ==
    [ok |-> TRUE, major |-> major, minor |-> minor, patch |-> patch,
     invalid_version |-> <<>>]

\* PythonInterpreterVersion::from_python_output
from_python_output(str) ==
    LET words == split_whitespace(str)
    IN  IF Len(words) < 1 THEN InvalidVersion(str)
        ELSE IF words[1] # <<"Python">> THEN InvalidVersion(str)
        ELSE IF Len(words) < 2 THEN InvalidVersion(str)
        ELSE
            LET parts == split(words[2], ".")
            IN  IF Len(parts) < 1 \/ ~parse(parts[1]).some THEN InvalidVersion(str)
                ELSE IF Len(parts) < 2 \/ ~parse(parts[2]).some THEN InvalidVersion(str)
                ELSE IF Len(parts) < 3 \/ ~parse(parts[3]).some THEN InvalidVersion(str)
                ELSE PythonInterpreterVersion(parse(parts[1]).value,
                                              parse(parts[2]).value,
                                              parse(parts[3]).value)

\* Any version string, not parsed yet.
PythonInit ==
    /\ version_str \in VersionStrings
    /\ parsed = None
    /\ NoRun
    /\ NoSDist
    /\ NoContains

\* from_python_output is called on the version string.
FromPythonOutput ==
    /\ ~parsed.some
    /\ parsed' = Some(from_python_output(version_str))
    /\ UNCHANGED version_str
    /\ UNCHANGED <<main_vars, sdist_vars, contains_vars>>

PythonNext == FromPythonOutput

PythonSpec == PythonInit /\ [][PythonNext]_vars

\* ---------------------------------------------------------------- contains
\* The comparison operators of a specifier clause.
Ops == {"==", "!=", "<", "<=", ">", ">=", "~=", "==="}

\* The clauses (op, version) of specifiers, on the final versions.
Clauses == [op : Ops, version : {w \in Versions : ~w.pre /\ ~w.dev}]

\* Specifiers: an ordered conjunction of at most MaxClauses clauses.
SpecifiersOfClauses == SeqsUpTo(Clauses, MaxClauses)

Ok(x) == [tag |-> "Ok", value |-> x]

Err == [tag |-> "Err", value |-> FALSE]

\* One clause on a version: the comparison by the order of versions; a
\* compatible-release clause needs a release of two segments, which no
\* version here has, and is an error.
ClauseSatisfiedBy(clause, w) ==
    LET c == VersionCmp(w, clause.version)
    IN  CASE clause.op = "==" -> Ok(c = 0)
          [] clause.op = "===" -> Ok(w = clause.version)
          [] clause.op = "!=" -> Ok(c # 0)
          [] clause.op = "<" -> Ok(c < 0)
          [] clause.op = "<=" -> Ok(c <= 0)
          [] clause.op = ">" -> Ok(c > 0)
          [] clause.op = ">=" -> Ok(c >= 0)
          [] OTHER -> Err

\* Specifiers::satisfied_by: the clauses in order, up to the first that fails
\* or is an error; the empty specifier set is satisfied by every version.
RECURSIVE satisfied_by(_, _)
satisfied_by(specifiers, w) ==
    IF specifiers = <<>> THEN Ok(TRUE)
    ELSE LET r == ClauseSatisfiedBy(Head(specifiers), w)
         IN  IF r.tag = "Err" \/ ~r.value THEN r
             ELSE satisfied_by(Tail(specifiers), w)

\* A membership test that takes an error for membership.
contains_ErrorIsMember(result) ==
    IF result.tag = "Err" THEN TRUE ELSE result.value

\* PypiVersionSet::contains, on what self.0.satisfied_by(&v.0) returned:
\* Err(e) is logged and gives false, Ok(result) gives result.
contains(result) ==
    IF result.tag = "Err" THEN FALSE ELSE result.value

\* Any version set and any version, not tested yet.
ContainsInit ==
    /\ version_set \in SpecifiersOfClauses
    /\ pypi_version \in Versions
    /\ satisfied = [tag |-> "", value |-> FALSE]
    /\ contained = None
    /\ NoRun
    /\ NoSDist
    /\ NoPythonOutput

\* The solver calls contains on the version set and the version.
Contains ==
    /\ ~contained.some
    /\ satisfied' = satisfied_by(version_set, pypi_version)
    /\ contained' = Some(contains(satisfied'))
    /\ UNCHANGED <<version_set, pypi_version>>
    /\ UNCHANGED <<main_vars, sdist_vars, python_vars>>

ContainsNext == Contains

ContainsSpec == ContainsInit /\ [][ContainsNext]_vars

\* ---------------------------------------------------------------- properties
IsFinal(v) == ~v.pre /\ ~v.dev

UnyankedWheel(a) == a.kind = "wheel" /\ ~a.yanked

\* C1: each package name is put into the queue at most once, so
\* available_artifacts is called at most once per name, whatever the roots.
C1_EnqueuedAtMostOnce ==
    \A p \in Packages : enqueued[p] <= 1 /\ fetches[p] <= 1

\* A measure of the work left: the fetches still possible (queued names and
\* names not yet seen), then the versions below the cursor, then the position.
Rank ==
    LET left == Len(queue) + Cardinality(Packages \ seen)
        K == 2 * TopRank + 5
    IN  CASE pc = "pop" -> left * K + 2
          [] pc = "versions" -> left * K + 2 * cursor + 3
          [] pc = "metadata" -> left * K + 2 * cursor + 4
          [] pc = "returned" -> IF mainpc = "solve" THEN 1 ELSE 0
          [] OTHER -> 0

\* C2: discovery terminates, cycles in requires_dist included: every step
\* lowers a natural-number measure, and no step is missing before
\* recursively_get_metadata has returned.
C2_Terminates ==
    /\ [][(pc \in {"pop", "versions", "metadata"}) => (Rank' < Rank)]_vars
    /\ [](pc \in {"pop", "versions", "metadata"} => ENABLED Next)

\* C2 as liveness under FairSpec.
C2_EventuallyReturns == <>(pc \in {"returned", "error"})

\* A run that returned after walking a cycle: a solvable that requires its own
\* package, or two packages whose solvables require each other.
C2_Witness ==
    /\ pc = "returned"
    /\ \E s \in DOMAIN dependencies, t \in DOMAIN dependencies :
         /\ s.name # t.name
         /\ \E i \in 1..Len(dependencies[s]) : dependencies[s][i].name = t.name
         /\ \E i \in 1..Len(dependencies[t]) : dependencies[t][i].name = s.name

\* C3: a package whose available_artifacts call failed has no entry in the
\* candidate map (get_candidates reports no candidates for it).
C3_FailedPackageHasNoCandidates ==
    \A p \in failed : ~HasKey(candidates, p) /\ ~get_candidates(p).some

\* C4: once get_metadata has failed, discovery has returned the error: there
\* is no provider, no package is dequeued or fetched any more, and the solver
\* does not run.
C4_MetadataErrorAborts ==
    error = "metadata" =>
        /\ pc = "error"
        /\ mainpc = "failed"
        /\ candidates = EmptyMap /\ dependencies = EmptyMap
        /\ sorted = EmptyMap
        /\ ~ENABLED (FetchArtifactsOk \/ FetchArtifactsErr)
        /\ ~ENABLED Solve

\* get_metadata failed while a root was still waiting in the queue.
C4_Witness ==
    /\ error = "metadata"
    /\ pc = "error"
    /\ Fetched < Len(packages)

\* C5: a marker that fails to evaluate counts as false: discovery goes on.
C5_MarkerErrorIsSkipped ==
    error = "marker" => pc # "error"

\* C6: a version reaches get_metadata, and becomes a candidate, only if one of
\* its wheel artifacts is not yanked.
C6_YankedGateOverWheels ==
    (pc = "metadata" \/ candidates # EmptyMap) =>
        \E i \in 1..Len(artifacts) : UnyankedWheel(artifacts[i])

\* C7: every artifact handed to get_metadata is a wheel and is not yanked.
C7_MetadataArgFiltered ==
    pc = "metadata" =>
        \A i \in 1..Len(metadata_arg) : UnyankedWheel(metadata_arg[i])

\* C8: no solvable in the candidate map has a version with pre or dev set.
C8_NoPreOrDevCandidate ==
    \A n \in DOMAIN candidates :
        \A i \in 1..Len(candidates[n]) : IsFinal(candidates[n][i].version)

\* The index listed a pre- or dev-release of a package after a final release
\* of it: the final one is a candidate, the other one was skipped.
C8_Witness ==
    /\ pc = "versions"
    /\ branch = "no_wheel"
    /\ \E v \in Versions : ~IsFinal(v) /\ VersionRank(v) = cursor
    /\ HasKey(candidates, package)

\* C9: a version listed with exactly one artifact, a yanked one, is not handed
\* to get_metadata and yields no candidate, wheel or sdist.
C9_SingleYankedArtifact ==
    (Len(artifacts) = 1 /\ artifacts[1].yanked) =>
        /\ pc # "metadata"
        /\ metadata_arg = <<>>
        /\ candidates = EmptyMap

\* The loop body ran on a final version whose only artifact is a yanked wheel.
C9_Witness ==
    /\ listed = 1
    /\ Len(artifacts) = 1
    /\ artifacts[1].yanked
    /\ artifacts[1].kind = "wheel"
    /\ IsFinal(artifacts[1].version)
    /\ branch = "yanked"

\* s is a permutation of t.
IsPermutation(s, t) ==
    /\ Len(s) = Len(t)
    /\ \A x \in Range(s) \cup Range(t) : Count(s, x) = Count(t, x)

\* C10: a candidate list after sort_candidates is a permutation of the list
\* discovery built, strictly descending by version.
C10_SortedStrictlyDescending ==
    \A n \in DOMAIN sorted :
        /\ IsPermutation(sorted[n], candidates[n])
        /\ \A i \in 1..(Len(sorted[n]) - 1) :
               VersionCmp(sorted[n][i].version, sorted[n][i + 1].version) = 1

\* C11: get_metadata succeeds at most once per (package, version) in a run:
\* no solvable is twice in the candidate list of its package.
C11_SolvableAppendedOnce ==
    \A n \in DOMAIN candidates :
        \A i, j \in 1..Len(candidates[n]) :
            i # j => candidates[n][i] # candidates[n][j]

\* C15: when the solver reports a conflict, the explanation is on stderr,
\* no line of the resolved environment is on stdout and the process has
\* exited with code 0.
C15_UnsatIsReportedOnStderr ==
    mainpc = "unsat" =>
        /\ "Could not solve" \in Range(stderr)
        /\ Range(stdout) \cap Range(ResolvedEnvironment) = {}
        /\ exit_code = 0

\* The solver reported a conflict on a provider in which a package has no
\* candidates because its available_artifacts call failed, after discovery
\* had printed the name it added.
C15_Witness ==
    /\ mainpc = "unsat"
    /\ failed # {}
    /\ stdout # <<>>
    /\ exit_code # NotExited

\* C16: the exit code is 0 exactly when the solver ran (a transaction or a
\* conflict), and non-zero when actual_main returned an error.
C16_ExitCodeTellsFailure ==
    exit_code # NotExited =>
        ((exit_code = 0) <=> (mainpc \in {"resolved", "unsat"}))

\* The requirements of a list whose marker is absent or evaluates to true.
Kept(reqs) ==
    SelectSeq(reqs, LAMBDA r : \/ r.env_marker_expr = NoMarker
                               \/ Eval(r.env_marker_expr, env) = "true")

\* The version sets of a list of requirements, in the order of the list.
VersionSetsOf(reqs) ==
    [i \in 1..Len(reqs) |-> InternVersionSet(reqs[i].name, reqs[i].specifiers)]

\* C18: the dependencies of the solvable of the metadata just walked are the
\* version sets of its kept requirements, in order, one for each.
C18_DependenciesInSourceOrder ==
    metadata # NoMetadata =>
        get_dependencies(InternSolvable(metadata.name, metadata.version))
            = VersionSetsOf(Kept(metadata.requires_dist))

\* C19: a callback returns what the maps hold (no candidates for a name
\* without entry, the empty list for a solvable without entry), and the maps
\* stay as discovery built them while the solver runs.
C19_CallbacksReadTheMaps ==
    /\ [](reply.fn = "get_candidates" =>
            IF reply.arg \in DOMAIN candidates
            THEN reply.result.some /\ reply.result.value = candidates[reply.arg]
            ELSE ~reply.result.some)
    /\ [](reply.fn = "get_dependencies" =>
            IF reply.arg \in DOMAIN dependencies
            THEN reply.result.value = dependencies[reply.arg]
            ELSE reply.result.value = <<>>)
    /\ [][mainpc = "solve" => UNCHANGED <<candidates, dependencies>>]_vars

\* The solver asked for the dependencies of a solvable that has requirements,
\* on a provider with a name that has no candidates.
C19_Witness ==
    /\ reply.fn = "get_dependencies"
    /\ reply.arg \in DOMAIN dependencies
    /\ reply.result.value # <<>>
    /\ \E name \in Packages : ~HasKey(candidates, name)

\* All requirements on name n in the list carry a marker that is false.
FalseOnly(reqs, n) ==
    /\ \E i \in 1..Len(reqs) : reqs[i].name = n
    /\ \A i \in 1..Len(reqs) :
         reqs[i].name = n =>
             /\ reqs[i].env_marker_expr # NoMarker
             /\ Eval(reqs[i].env_marker_expr, env) = "false"

\* The version sets on name n in the dependency list of solvable s in map d.
VersionSetsOn(d, s, n) ==
    IF s \in DOMAIN d
    THEN Cardinality({i \in 1..Len(d[s]) : d[s][i].name = n})
    ELSE 0

\* C20: walking a metadata file leaves alone every name it requires under
\* false markers only: seen, the queue and the solvable's dependencies on it.
C20_FalseMarkerHasNoEffect ==
    [][(pc = "metadata" /\ pc' = "versions") =>
          \A n \in Packages :
              FalseOnly(metadata'.requires_dist, n) =>
                  /\ (n \in seen') <=> (n \in seen)
                  /\ Count(queue', n) = Count(queue, n)
                  /\ VersionSetsOn(dependencies', InternSolvable(package, version), n)
                       = VersionSetsOn(dependencies, InternSolvable(package, version), n)]_vars

\* A metadata file was walked that requires an unseen name under a false
\* marker: the name is still unseen.
C20_Witness ==
    /\ pc = "versions"
    /\ \E n \in Packages :
         /\ FalseOnly(metadata.requires_dist, n)
         /\ n \notin seen

\* The entries at which find_entry(name) stops on a stream read from its
\* start: the entries that cannot be read and those whose path matches.
Stops(entries, name) ==
    {i \in 1..Len(entries) : entries[i].corrupt \/ EndsWith(entries[i].path, name)}

\* The first of them.
FirstStop(entries, name) ==
    CHOOSE i \in Stops(entries, name) : \A j \in Stops(entries, name) : i <= j

\* The stream gives a PKG-INFO that decodes with Metadata-Version >= 2.2.
ReliablePkgInfo(a) ==
    /\ Stops(a.entries, "PKG-INFO") # {}
    /\ LET e == a.entries[FirstStop(a.entries, "PKG-INFO")]
       IN  /\ ~e.corrupt
           /\ e.content.decodes
           /\ e.content.metadata_version[1] * 100 + e.content.metadata_version[2] >= 202

\* C12 as stated: whenever pep643_metadata is called on an SDist, it returns
\* the metadata if and only if the archive's PKG-INFO decodes with
\* Metadata-Version >= 2.2, and never an error.
C12_Pep643OnAnySDist ==
    \A t \in Threads :
        (tpc[t] = "done" /\ op[t] = "pep643_metadata") =>
            /\ ret[t].tag \in {"Some", "None"}
            /\ (ret[t].tag = "Some") <=> ReliablePkgInfo(archive)

\* C12 on a freshly opened SDist (the first lookup on it): pep643_metadata
\* returns the PKG-INFO bytes and metadata if and only if the archive's
\* PKG-INFO decodes with Metadata-Version >= 2.2; called at any time, it
\* returns Some or None and never an error.
C12_Pep643OnFreshSDist ==
    \A t \in Threads :
        (tpc[t] = "done" /\ op[t] = "pep643_metadata") =>
            /\ ret[t].tag \in {"Some", "None"}
            /\ t = order[1] =>
                 /\ (ret[t].tag = "Some") <=> ReliablePkgInfo(archive)
                 /\ ret[t].tag = "Some" =>
                      ret[t].value =
                          archive.entries[FirstStop(archive.entries, "PKG-INFO")].content

\* The first lookup was pep643_metadata and returned the metadata of a
\* PKG-INFO of version 3.0 that is not the first entry of the archive.
C12_Witness ==
    \E t \in Threads :
        /\ tpc[t] = "done" /\ op[t] = "pep643_metadata" /\ t = order[1]
        /\ ret[t].tag = "Some"
        /\ ret[t].value.metadata_version = <<3, 0>>
        /\ pos = 2

\* C13: at most one thread is between lock and release, the mutex is held by
\* a thread only while it is inside find_entry, and a thread that waits for
\* the mutex gets through find_entry.
C13_LookupsAreSerialized ==
    /\ [](Cardinality({t \in Threads : tpc[t] = "entries"}) <= 1)
    /\ [](\A t \in Threads : (tpc[t] = "entries") <=> (locked_by = t))
    /\ \A t \in Threads : (tpc[t] = "lock") ~> (tpc[t] = "done")

\* One thread reads entries while the other waits for the mutex.
C13_Witness ==
    \E t, u \in Threads :
        /\ tpc[t] = "entries" /\ pos >= 1
        /\ tpc[u] = "lock"

\* C14: a lookup that is not the first one on the SDist returns no entry.
C14_SecondLookupFindsNothing ==
    \A t \in Threads :
        (tpc[t] = "done" /\ t # order[1]) =>
            /\ ret[t].find_entry # "Some"
            /\ ret[t].tag \notin {"Ok", "Some"}

\* The second lookup has returned, and the archive holds a readable entry of
\* the name it looked for that the first lookup had not read.
C14_Witness ==
    /\ Len(order) = 2
    /\ tpc[order[1]] = "done" /\ tpc[order[2]] = "done"
    /\ ret[order[1]].find_entry = "Some"
    /\ pos < Len(archive.entries)
    /\ LET e == archive.entries[pos + 1]
       IN  ~e.corrupt /\ EndsWith(e.path, looking_for[order[2]])

\* Symbols i..j of s are digits, at least one.
DigitsAt(s, i, j) == i <= j /\ \A k \in i..j : s[k] \in Digits

\* The words before index q of s are blanks and the one word Python, which
\* a blank follows.
PythonBefore(s, q) ==
    /\ s[q - 1] = " "
    /\ \E p \in 1..(q - 2) :
         /\ s[p] = "Python"
         /\ \A k \in 1..(q - 1) : k # p => s[k] = " "

\* The ways to read s as blanks, Python, blanks, digits . digits . digits and
\* then the end, a blank or a dot: <<q, e1, e2, e3>> are the place where the
\* version starts and the places where its three numbers end.
Readings(s) ==
    UNION {UNION {UNION {
        {<<q, e1, e2, e3>> :
            e3 \in {e \in (e2 + 2)..Len(s) :
                       /\ DigitsAt(s, e2 + 2, e)
                       /\ (e = Len(s) \/ s[e + 1] \in {" ", "."})}} :
            e2 \in {e \in (e1 + 2)..(Len(s) - 1) :
                       DigitsAt(s, e1 + 2, e) /\ s[e + 1] = "."}} :
            e1 \in {e \in q..(Len(s) - 1) :
                       DigitsAt(s, q, e) /\ s[e + 1] = "."}} :
            q \in {i \in 3..Len(s) : PythonBefore(s, i)}}

\* C17: from_python_output succeeds exactly on the strings whose first word
\* is Python and whose second word starts with three dot-separated numbers,
\* and returns these; on any other string it returns InvalidVersion with the
\* string itself.
C17_ParsesPythonVersion ==
    parsed.some =>
        LET r == parsed.value
            s == version_str
        IN  IF r.ok
            THEN /\ Readings(s) # {}
                 /\ \A sh \in Readings(s) :
                      /\ r.major = Number(SubSeq(s, sh[1], sh[2]))
                      /\ r.minor = Number(SubSeq(s, sh[2] + 2, sh[3]))
                      /\ r.patch = Number(SubSeq(s, sh[3] + 2, sh[4]))
            ELSE /\ Readings(s) = {}
                 /\ r.invalid_version = s

\* "Python 3.8.3" was parsed as (3, 8, 3).
C17_Witness ==
    /\ parsed.some
    /\ version_str = <<"Python", " ", "3", ".", "8", ".", "3">>
    /\ parsed.value.ok
    /\ parsed.value.major = 3 /\ parsed.value.minor = 8 /\ parsed.value.patch = 3

\* The entries whose path ends with the name.
Matches(entries, name) ==
    {i \in 1..Len(entries) : EndsWith(entries[i].path, name)}

\* The first of them in archive order.
FirstMatch(entries, name) ==
    CHOOSE i \in Matches(entries, name) : \A j \in Matches(entries, name) : i <= j

\* Every entry up to the i-th can be read.
ReadableUpTo(entries, i) == \A j \in 1..i : ~entries[j].corrupt

\* C21: the first lookup on a freshly opened SDist reads the entries in
\* archive order up to the first one whose path ends with the requested name
\* and returns the bytes of that entry, never those of a later match; it
\* returns "not found" only when no entry matches; and when an entry matches
\* and the stream can be read up to it, the lookup returns it.
C21_FirstMatchingEntryWins ==
    \A t \in Threads :
        (tpc[t] = "done" /\ t = order[1]) =>
            LET es == archive.entries
                name == looking_for[t]
            IN  /\ ret[t].find_entry = "Some" =>
                     /\ Matches(es, name) # {}
                     /\ pos = FirstMatch(es, name)
                     /\ ReadableUpTo(es, pos)
                     /\ ret[t].tag \in {"Ok", "Some"} => ret[t].value = es[pos].content
                /\ ret[t].find_entry = "None" => Matches(es, name) = {}
                /\ (/\ Matches(es, name) # {}
                    /\ ReadableUpTo(es, FirstMatch(es, name))) =>
                        ret[t].find_entry = "Some"

\* The archive holds two PKG-INFO entries of different content, and the first
\* lookup returned the first of them and left the second unread.
C21_Witness ==
    \E t \in Threads :
        /\ tpc[t] = "done" /\ t = order[1]
        /\ op[t] = "read_package_info"
        /\ Matches(archive.entries, "PKG-INFO") = {1, 2}
        /\ archive.entries[1].content # archive.entries[2].content
        /\ ret[t].tag = "Ok"
        /\ ret[t].value = archive.entries[1].content
        /\ pos = 1

\* Every clause of the specifiers can be decided on w and holds.
EveryClauseHolds(specifiers, w) ==
    \A i \in 1..Len(specifiers) :
        /\ specifiers[i].op # "~="
        /\ LET a == VersionRank(w)
               b == VersionRank(specifiers[i].version)
           IN  CASE specifiers[i].op \in {"==", "==="} -> a = b
                 [] specifiers[i].op = "!=" -> a # b
                 [] specifiers[i].op = "<" -> a < b
                 [] specifiers[i].op = "<=" -> a <= b
                 [] specifiers[i].op = ">" -> a > b
                 [] OTHER -> a >= b

\* C22: contains returns a boolean whatever satisfied_by returned: the
\* result of satisfied_by when that is Ok, false when it is an error; so a
\* version is a member only if every clause of the specifiers holds for it.
C22_ContainsIsSatisfiedBy ==
    contained.some =>
        /\ contained.value \in BOOLEAN
        /\ satisfied.tag \in {"Ok", "Err"}
        /\ satisfied.tag = "Ok" => contained.value = satisfied.value
        /\ satisfied.tag = "Err" => contained.value = FALSE
        /\ contained.value => EveryClauseHolds(version_set, pypi_version)

\* satisfied_by reported an error on a version that the first clause of the
\* version set accepts, and contains returned false.
C22_Witness ==
    /\ contained.some
    /\ Len(version_set) = 2
    /\ version_set[1].op = ">=" /\ version_set[2].op = "~="
    /\ VersionRank(pypi_version) >= VersionRank(version_set[1].version)
    /\ satisfied.tag = "Err"
    /\ contained.value = FALSE

\* The names referred to by the version sets of the map d.
NamesOf(d) == UNION {{d[s][i].name : i \in 1..Len(d[s])} : s \in DOMAIN d}

\* C23: while the loop of recursively_get_metadata runs, every name in the
\* queue and every name a recorded version set refers to is in seen, and
\* every name in seen is in the queue or has had available_artifacts called
\* for it; when recursively_get_metadata returns the provider the queue is
\* empty, so available_artifacts has been called for every root and for every
\* name a recorded dependency refers to.
C23_DiscoveryIsClosed ==
    /\ pc \in {"pop", "versions", "metadata"} =>
         /\ Range(queue) \subseteq seen
         /\ Range(packages) \subseteq seen
         /\ NamesOf(dependencies) \subseteq seen
         /\ \A n \in seen : n \in Range(queue) \/ fetches[n] >= 1
    /\ pc = "returned" =>
         /\ queue = <<>>
         /\ \A n \in Range(packages) \cup NamesOf(dependencies) : fetches[n] >= 1

\* Discovery has returned a provider in which a name that is not a root is
\* referred to by a dependency, and available_artifacts was called for it.
C23_Witness ==
    /\ pc = "returned"
    /\ \E n \in NamesOf(dependencies) :
         /\ n \notin Range(packages)
         /\ fetches[n] >= 1

====
